---------------------------- MODULE Spec2Model ----------------------------
(***************************************************************************)
(* Model of the drawing shapes of nanofactorysystem                        *)
(* (aerobasic/programs/drawings/lines.py): each shape is constructed from  *)
(* caller-supplied arguments and lowered by draw_on into an ordered        *)
(* program of LINEAR / GALVO_LASER_OVERRIDE / comment instructions; and of *)
(* the plane fit of tools/plane.py (PlaneFit), constructed from a list of  *)
(* (x, y, z) samples and queried by getz, with the plane detector (Plane)  *)
(* that records one step per layer scan and fits the recorded steps.       *)
(*                                                                         *)
(* Numbers are exact rationals [n, d] (d > 0, lowest terms): Python's      *)
(* float rounding is not modelled, true division and round() are.          *)
(***************************************************************************)
EXTENDS Integers, Sequences, FiniteSets, TLC

VARIABLES args, obj, err, program, drawn, coordinate_system, draws, result

vars == <<args, obj, err, program, drawn, coordinate_system, draws, result>>

---------------------------------------------------------------------------
(* Bounds of the explored inputs *)

MaxSegs == 3        \* a sweep holds 0..MaxSegs segments
MaxPts == 3         \* a PolyLine holds 0..MaxPts points
MaxLines == 2       \* a PolyLines batch holds 0..MaxLines lines
MaxDim == 3         \* Corner width and height range up to MaxDim
MaxDraws == 2       \* draw_on is called up to MaxDraws times on an object
MaxSamples == 4     \* a PlaneFit is given 0..MaxSamples samples
MaxSteps == 2       \* a Plane records up to MaxSteps scan steps between containers

---------------------------------------------------------------------------
(* Exact rational arithmetic standing for Python's float arithmetic *)

Abs(i) == IF i < 0 THEN -i ELSE i

RECURSIVE GCD(_, _)
GCD(a, b) == IF b = 0 THEN a ELSE GCD(b, a % b)

Rat(n, d) ==
    LET s == IF d < 0 THEN -1 ELSE 1
        g == GCD(Abs(n), Abs(d))
    IN  [n |-> (s * n) \div g, d |-> (s * d) \div g]

R(i) == [n |-> i, d |-> 1]
RAdd(a, b) == Rat(a.n * b.d + b.n * a.d, a.d * b.d)
RNeg(a) == [n |-> -a.n, d |-> a.d]
RSub(a, b) == RAdd(a, RNeg(b))
RMul(a, b) == Rat(a.n * b.n, a.d * b.d)
RDiv(a, b) == Rat(a.n * b.d, a.d * b.n)
RLt(a, b) == a.n * b.d < b.n * a.d
RLe(a, b) == a.n * b.d <= b.n * a.d
RSign(a) == IF a.n > 0 THEN 1 ELSE IF a.n < 0 THEN -1 ELSE 0

\* None, as the value of an optional rate
None == [n |-> 0, d |-> 0]

---------------------------------------------------------------------------
(* The instruction program (DrawableAeroBasicProgram) *)

EmptyProgram == << >>

LINEAR(prog, kw) == Append(prog, [op |-> "LINEAR", kw |-> kw])

GALVO_LASER_OVERRIDE(prog, mode) ==
    Append(prog, [op |-> "GALVO_LASER_OVERRIDE", kw |-> [mode |-> mode]])

comment(prog, text, i) ==
    Append(prog, [op |-> "comment", kw |-> [text |-> text, i |-> i]])

add_programm(prog, other) == prog \o other

\* The keyword arguments of LINEAR(**point, F=F, E=E)
MoveKw(point, F, E) ==
    [k \in DOMAIN point \cup {"F", "E"} |->
        IF k = "F" THEN F ELSE IF k = "E" THEN E ELSE point[k]]

\* A lowering either returns a program or raises
Ok(prog) == [err |-> "None", prog |-> prog]
Raise(e) == [err |-> e, prog |-> EmptyProgram]

---------------------------------------------------------------------------
(* SingleLine *)

SingleLine_draw_on(self) ==
    LET p0 == EmptyProgram
        p1 == LINEAR(p0, MoveKw(self.start, self.F, self.E))
        p2 == GALVO_LASER_OVERRIDE(p1, "ON")
        p3 == LINEAR(p2, MoveKw(self.end, self.F, self.E))
        p4 == GALVO_LASER_OVERRIDE(p3, "OFF")
    IN  Ok(p4)

---------------------------------------------------------------------------
(* _Lines, XLines, YLines: the monotone line sweep *)

\* np.sign(line_segment[1] - line_segment[0])
direction(line_segment) == RSign(RSub(R(line_segment[2]), R(line_segment[1])))

\* The index of the first line whose direction differs from that of line 0;
\* 0 when there is none.  lines is not empty.
RECURSIVE first_mismatch(_, _)
first_mismatch(lines, i) ==
    IF i > Len(lines) - 1 THEN 0
    ELSE IF ~(direction(lines[i + 1]) = direction(lines[1])) THEN i
    ELSE first_mismatch(lines, i + 1)

\* validate_lines as it would be if the loop ran over lines[1:-1]
validate_lines_skip_last(lines) ==
    IF Len(lines) = 0 THEN [type |-> "IndexError", index |-> 0]
    ELSE LET i == first_mismatch(SubSeq(lines, 1, Len(lines) - 1), 1)
         IN  IF i = 0 THEN [type |-> "None", index |-> 0]
             ELSE [type |-> "ValueError", index |-> i]

\* validate_lines as it would be if the message named enumerate's default
\* count (from 0) instead of start=1
validate_lines_count_from_zero(lines) ==
    IF Len(lines) = 0 THEN [type |-> "IndexError", index |-> 0]
    ELSE LET i == first_mismatch(lines, 1)
         IN  IF i = 0 THEN [type |-> "None", index |-> 0]
             ELSE [type |-> "ValueError", index |-> i - 1]

\* _validate_lines: the error it raises, index being the line the
\* message names (lines are numbered from 0, as in the source)
validate_lines(lines) ==
    IF Len(lines) = 0 THEN [type |-> "IndexError", index |-> 0]
    ELSE LET i == first_mismatch(lines, 1)
         IN  IF i = 0 THEN [type |-> "None", index |-> 0]
             ELSE [type |-> "ValueError", index |-> i]

\* The keyword arguments of a sweep Move that names the swept axis only
AxisMove(self, value) ==
    IF self.line_axis = "X" THEN [X |-> value, F |-> R(self.velocity)]
    ELSE [Y |-> value, F |-> R(self.velocity)]

\* FullMove as it would be without position.update(self.secondary_position)
FullMove_without_update(self, value) == AxisMove(self, value)

\* position.update(self.secondary_position)
FullMove(self, value) ==
    IF self.line_axis = "X"
    THEN [X |-> value, F |-> R(self.velocity),
          Y |-> R(self.secondary_position.Y), Z |-> R(self.secondary_position.Z)]
    ELSE [Y |-> value, F |-> R(self.velocity),
          X |-> R(self.secondary_position.X), Z |-> R(self.secondary_position.Z)]

\* The body of the "Draw lines" loop for one segment
DrawSegment(self, prog, line) ==
    LET p1 == LINEAR(prog, AxisMove(self, R(line[1])))
        p2 == GALVO_LASER_OVERRIDE(p1, "ON")
        p3 == LINEAR(p2, AxisMove(self, R(line[2])))
    IN  GALVO_LASER_OVERRIDE(p3, "OFF")

\* DrawSegments as it would be if the loop ran over reversed(self.lines)
RECURSIVE DrawSegments_reversed(_, _, _)
DrawSegments_reversed(self, prog, k) ==
    IF k > Len(self.lines) THEN prog
    ELSE DrawSegments_reversed(
             self,
             DrawSegment(self, prog, self.lines[Len(self.lines) + 1 - k]),
             k + 1)

RECURSIVE DrawSegments(_, _, _)
DrawSegments(self, prog, k) ==
    IF k > Len(self.lines) THEN prog
    ELSE DrawSegments(self, DrawSegment(self, prog, self.lines[k]), k + 1)

\* acceleration_distance as it would be without the factor 2
acceleration_distance_no_half(self) ==
    RDiv(R(self.velocity * self.velocity), R(self.acceleration))

acceleration_distance(self) ==
    RDiv(R(self.velocity * self.velocity), R(2 * self.acceleration))

start_value(self) ==
    RSub(R(self.lines[1][1]),
         RMul(R(direction(self.lines[1])), acceleration_distance(self)))

end_value(self) ==
    RAdd(R(self.lines[Len(self.lines)][2]),
         RMul(R(direction(self.lines[1])), acceleration_distance(self)))

Lines_draw_on(self) ==
    IF 2 * self.acceleration = 0 THEN Raise("ZeroDivisionError")
    ELSE LET p1 == LINEAR(EmptyProgram, FullMove(self, start_value(self)))
             p2 == DrawSegments(self, p1, 1)
             p3 == LINEAR(p2, FullMove(self, end_value(self)))
         IN  Ok(p3)

---------------------------------------------------------------------------
(* PolyLine and PolyLines *)

RECURSIVE PolyLine_rest(_, _, _)
PolyLine_rest(self, prog, k) ==
    IF k > Len(self.line) THEN prog
    ELSE PolyLine_rest(self,
                       LINEAR(prog, MoveKw(self.line[k], self.F, self.E)),
                       k + 1)

\* PolyLine.draw_on as it would be with the gate switched on inside the loop
RECURSIVE PolyLine_rest_gated(_, _, _)
PolyLine_rest_gated(self, prog, k) ==
    IF k > Len(self.line) THEN prog
    ELSE PolyLine_rest_gated(
             self,
             LINEAR(GALVO_LASER_OVERRIDE(prog, "ON"),
                    MoveKw(self.line[k], self.F, self.E)),
             k + 1)

PolyLine_draw_on_gate_in_loop(self) ==
    IF Len(self.line) = 0 THEN Raise("IndexError")
    ELSE LET p1 == LINEAR(EmptyProgram, MoveKw(self.line[1], self.F, self.E))
             p3 == PolyLine_rest_gated(self, p1, 2)
         IN  Ok(GALVO_LASER_OVERRIDE(p3, "OFF"))

\* PolyLine.draw_on as it would be with the gate switched on before the
\* move to the first point
PolyLine_draw_on_gate_first(self) ==
    IF Len(self.line) = 0 THEN Raise("IndexError")
    ELSE LET p1 == GALVO_LASER_OVERRIDE(EmptyProgram, "ON")
             p2 == LINEAR(p1, MoveKw(self.line[1], self.F, self.E))
             p3 == PolyLine_rest(self, p2, 2)
         IN  Ok(GALVO_LASER_OVERRIDE(p3, "OFF"))

\* PolyLine.draw_on as it would be with the gate switched off before the loop
PolyLine_draw_on_gate_off_before_loop(self) ==
    IF Len(self.line) = 0 THEN Raise("IndexError")
    ELSE LET p1 == LINEAR(EmptyProgram, MoveKw(self.line[1], self.F, self.E))
             p2 == GALVO_LASER_OVERRIDE(p1, "ON")
             p3 == GALVO_LASER_OVERRIDE(p2, "OFF")
         IN  Ok(PolyLine_rest(self, p3, 2))

PolyLine_draw_on(self) ==
    IF Len(self.line) = 0 THEN Raise("IndexError")
    ELSE LET p1 == LINEAR(EmptyProgram, MoveKw(self.line[1], self.F, self.E))
             p2 == GALVO_LASER_OVERRIDE(p1, "ON")
             p3 == PolyLine_rest(self, p2, 2)
         IN  Ok(GALVO_LASER_OVERRIDE(p3, "OFF"))

PolyLine(line, F, E) == [kind |-> "PolyLine", line |-> line, F |-> F, E |-> E]

\* The loop of PolyLines.draw_on as it would be with the comment written
\* after the line's program
RECURSIVE PolyLines_loop_comment_after(_, _, _)
PolyLines_loop_comment_after(self, prog, i) ==
    IF i > Len(self.lines) - 1 THEN Ok(prog)
    ELSE LET sub == PolyLine_draw_on(PolyLine(self.lines[i + 1], self.F, self.E))
             p1 == add_programm(prog, sub.prog)
         IN  IF sub.err # "None" THEN Raise(sub.err)
             ELSE PolyLines_loop_comment_after(
                      self, comment(p1, "[Polyline] - Draw line", i), i + 1)

\* The loop of PolyLines.draw_on from line i on (i counts from 0)
RECURSIVE PolyLines_loop(_, _, _)
PolyLines_loop(self, prog, i) ==
    IF i > Len(self.lines) - 1 THEN Ok(prog)
    ELSE LET p1 == comment(prog, "[Polyline] - Draw line", i)
             sub == PolyLine_draw_on(PolyLine(self.lines[i + 1], self.F, self.E))
         IN  IF sub.err # "None" THEN Raise(sub.err)
             ELSE PolyLines_loop(self, add_programm(p1, sub.prog), i + 1)

PolyLines_draw_on(self) == PolyLines_loop(self, EmptyProgram, 0)

PolyLines(lines, F, E) == [kind |-> "PolyLines", lines |-> lines, F |-> F, E |-> E]

---------------------------------------------------------------------------
(* center_point of PolyLine and PolyLines *)

Returned(value) == [kind |-> "Returned", value |-> value]
Raised(e) == [kind |-> "Raised", err |-> e]

\* "for k, v in values" iterates the keys of the dict values: each item is
\* an axis name, and a string unpacks into k, v only if it has two characters
unpacks_into_pair(item) == Len(item) = 2

\* center_point over the coordinates of all lines, values keyed by first
center_of(coordinates, first) ==
    IF \E i \in 1..Len(coordinates) :
           \E k \in DOMAIN coordinates[i] : k \notin DOMAIN first
    THEN Raised("KeyError")
    ELSE IF \E item \in DOMAIN first : ~unpacks_into_pair(item)
    THEN Raised("ValueError")
    ELSE Raised("TypeError")     \* np.min of the key's second character

PolyLine_center_point(self) ==
    IF Len(self.line) = 0 THEN Raised("IndexError")
    ELSE center_of(self.line, self.line[1])

RECURSIVE Flatten(_, _)
Flatten(lines, k) ==
    IF k > Len(lines) THEN << >> ELSE lines[k] \o Flatten(lines, k + 1)

PolyLines_center_point(self) ==
    IF Len(self.lines) = 0 THEN Raised("IndexError")
    ELSE IF Len(self.lines[1]) = 0 THEN Raised("IndexError")
    ELSE center_of(Flatten(self.lines, 1), self.lines[1][1])

center_point(self) ==
    IF self.kind = "PolyLine" THEN PolyLine_center_point(self)
    ELSE PolyLines_center_point(self)

---------------------------------------------------------------------------
(* Point2D / Point3D arithmetic *)

Point2D(x, y) == [X |-> x, Y |-> y]
Point3D(x, y, z) == [X |-> x, Y |-> y, Z |-> z]

\* p + q: the axes of q are added to those of p
PointAdd(p, q) ==
    [k \in DOMAIN p \cup DOMAIN q |->
        IF k \in DOMAIN p /\ k \in DOMAIN q THEN RAdd(p[k], q[k])
        ELSE IF k \in DOMAIN p THEN p[k] ELSE q[k]]

\* rotate2D for the quarter turns, where sine and cosine are exact
rotate2D(p, deg) ==
    CASE deg = 0 -> Point2D(p.X, p.Y)
      [] deg = 90 -> Point2D(RNeg(p.Y), p.X)
      [] deg = 180 -> Point2D(RNeg(p.X), RNeg(p.Y))
      [] deg = 270 -> Point2D(p.Y, RNeg(p.X))

---------------------------------------------------------------------------
(* Corner *)

\* Integer floor of a rational
Floor(q) == q.n \div q.d

\* Python's round(): to the nearest integer, a tie to the even one
round(q) ==
    LET f == Floor(q)
        twice == RSub(RMul(R(2), q), R(2 * f))   \* 2 * (q - f), in [0, 2)
    IN  IF RLt(twice, R(1)) THEN f
        ELSE IF RLt(R(1), twice) THEN f + 1
        ELSE IF f % 2 = 0 THEN f ELSE f + 1

\* np.arange(0, stop, step) for step > 0: 0, step, 2 step, ... below stop
RECURSIVE arange_from(_, _, _)
arange_from(z, stop, step) ==
    IF RLt(z, stop) THEN <<z>> \o arange_from(RAdd(z, step), stop, step)
    ELSE << >>

\* arange as it would be with the stop included
RECURSIVE arange_upto(_, _, _)
arange_upto(z, stop, step) ==
    IF RLe(z, stop) THEN <<z>> \o arange_upto(RAdd(z, step), stop, step)
    ELSE << >>

arange_inclusive(stop, step) == arange_upto(R(0), stop, step)

arange(stop, step) == arange_from(R(0), stop, step)

\* n = round(self.width / self.hatch_size) + 1
stroke_count(self) == round(RDiv(self.width, self.hatch_size)) + 1

\* hatch_corrected = self.width / (n - 1), for n # 1
hatch_corrected(self) == RDiv(self.width, R(stroke_count(self) - 1))

\* center_diagonal = -(i - n / 2) * hatch
center_diagonal(i, n, hatch) == RNeg(RMul(RSub(R(i), Rat(n, 2)), hatch))

\* offset = length - width / 2
corner_offset(length, width) == RSub(length, RDiv(width, R(2)))

corner_p1(cc, length, width, i, n, hatch, rot) ==
    PointAdd(cc, rotate2D(Point2D(corner_offset(length, width),
                                  center_diagonal(i, n, hatch)), rot))

corner_p2(cc, length, width, i, n, hatch, rot) ==
    PointAdd(cc, rotate2D(Point2D(center_diagonal(i, n, hatch),
                                  center_diagonal(i, n, hatch)), rot))

corner_p3(cc, length, width, i, n, hatch, rot) ==
    PointAdd(cc, rotate2D(Point2D(center_diagonal(i, n, hatch),
                                  corner_offset(length, width)), rot))

\* stroke as it would be if the test were i % 2 == 0
stroke_ignoring_change_start(cc, length, width, i, n, hatch, change_start, rot) ==
    LET p1 == corner_p1(cc, length, width, i, n, hatch, rot)
        p2 == corner_p2(cc, length, width, i, n, hatch, rot)
        p3 == corner_p3(cc, length, width, i, n, hatch, rot)
    IN  IF i % 2 = 0 THEN <<p1, p2, p3>> ELSE <<p3, p2, p1>>

\* The stroke single_layer appends for index i
stroke(cc, length, width, i, n, hatch, change_start, rot) ==
    LET p1 == corner_p1(cc, length, width, i, n, hatch, rot)
        p2 == corner_p2(cc, length, width, i, n, hatch, rot)
        p3 == corner_p3(cc, length, width, i, n, hatch, rot)
    IN  IF (i + (IF change_start THEN 1 ELSE 0)) % 2 = 0
        THEN <<p1, p2, p3>>
        ELSE <<p3, p2, p1>>

RECURSIVE single_layer_lines(_, _, _, _, _, _, _, _)
single_layer_lines(cc, length, width, i, n, hatch, change_start, rot) ==
    IF i > n - 1 THEN << >>
    ELSE <<stroke(cc, length, width, i, n, hatch, change_start, rot)>>
         \o single_layer_lines(cc, length, width, i + 1, n, hatch,
                               change_start, rot)

single_layer(self, cc, n, hatch, change_start) ==
    PolyLines(single_layer_lines(cc, self.length, self.width, 0, n, hatch,
                                 change_start, self.rotation_degree),
              self.F, self.E)

\* The loop of Corner.draw_on over the layers zs[k..]
RECURSIVE Corner_loop(_, _, _, _, _, _, _)
Corner_loop(self, prog, zs, k, n, hatch, change_start) ==
    IF k > Len(zs) THEN Ok(prog)
    ELSE LET poly_lines ==
                 single_layer(self,
                              PointAdd(self.corner_center,
                                       Point3D(R(0), R(0), zs[k])),
                              n, hatch, change_start)
             sub == PolyLines_draw_on(poly_lines)
         IN  IF sub.err # "None" THEN Raise(sub.err)
             ELSE Corner_loop(self, add_programm(prog, sub.prog), zs, k + 1,
                              n, hatch, ~change_start)

Corner_draw_on(self) ==
    IF self.hatch_size.n = 0 THEN Raise("ZeroDivisionError")
    ELSE IF stroke_count(self) - 1 = 0 THEN Raise("ZeroDivisionError")
    ELSE Corner_loop(self, EmptyProgram,
                     arange(self.height, self.layer_height), 1,
                     stroke_count(self), hatch_corrected(self), FALSE)

Corner(corner_center, length, width, height, hatch_size, layer_height, rotation_degree, F, E) ==
    [kind |-> "Corner", corner_center |-> corner_center, length |-> length,
     width |-> width, height |-> height, hatch_size |-> hatch_size,
     layer_height |-> layer_height, rotation_degree |-> rotation_degree,
     F |-> F, E |-> E]

---------------------------------------------------------------------------
(* CornerRectangle *)

CornerRectangle(center, rectangle_width, rectangle_height, corner_length, corner_width, height, layer_height, hatch_size, F, E) ==
    LET hw == RDiv(rectangle_width, R(2))
        hh == RDiv(rectangle_height, R(2))
        corner(dx, dy, rot) ==
            Corner(PointAdd(center, Point2D(dx, dy)), corner_length,
                   corner_width, height, hatch_size, layer_height, rot, F, E)
    IN  [kind |-> "CornerRectangle", center |-> center,
         rectangle_width |-> rectangle_width,
         rectangle_height |-> rectangle_height,
         corner_length |-> corner_length, corner_width |-> corner_width,
         height |-> height, layer_height |-> layer_height,
         hatch_size |-> hatch_size, F |-> F, E |-> E,
         tl_corner |-> corner(RNeg(hw), RNeg(hh), 0),
         tr_corner |-> corner(hw, RNeg(hh), 90),
         bl_corner |-> corner(RNeg(hw), hh, 270),
         br_corner |-> corner(hw, hh, 180)]

\* comment, then add_programm(corner.draw_on(...)), for the corners of cs
RECURSIVE CornerRectangle_steps(_, _, _)
CornerRectangle_steps(prog, cs, k) ==
    IF k > Len(cs) THEN Ok(prog)
    ELSE LET p1 == comment(prog, cs[k].text, 0)
             sub == Corner_draw_on(cs[k].corner)
         IN  IF sub.err # "None" THEN Raise(sub.err)
             ELSE CornerRectangle_steps(add_programm(p1, sub.prog), cs, k + 1)

\* The corners lowered in the order __init__ builds them
CornerRectangle_draw_on_init_order(self) ==
    CornerRectangle_steps(EmptyProgram,
        << [text |-> "Drawing Top Left corner", corner |-> self.tl_corner],
           [text |-> "Drawing Top Right corner", corner |-> self.tr_corner],
           [text |-> "Drawing Bottom Left corner", corner |-> self.bl_corner],
           [text |-> "Drawing Bottom Right corner", corner |-> self.br_corner] >>,
        1)

CornerRectangle_draw_on(self) ==
    CornerRectangle_steps(EmptyProgram,
        << [text |-> "Drawing Top Left corner", corner |-> self.tl_corner],
           [text |-> "Drawing Top Right corner", corner |-> self.tr_corner],
           [text |-> "Drawing Bottom Right corner", corner |-> self.br_corner],
           [text |-> "Drawing Bottom Left corner", corner |-> self.bl_corner] >>,
        1)

---------------------------------------------------------------------------
(* VerticalLine *)

VerticalLine_draw_on(self) ==
    LET point0 == Point2D(self.position.X, self.position.Y)
        point1 == [k \in DOMAIN point0 \cup {"Z"} |->
                      IF k = "Z" THEN self.z_min ELSE point0[k]]
        p1 == LINEAR(EmptyProgram, [k \in DOMAIN point1 \cup {"F"} |->
                                       IF k = "F" THEN self.F ELSE point1[k]])
        p2 == GALVO_LASER_OVERRIDE(p1, "ON")
        point2 == [point1 EXCEPT !["Z"] = self.z_max]
        p3 == LINEAR(p2, [k \in DOMAIN point2 \cup {"F"} |->
                             IF k = "F" THEN self.F ELSE point2[k]])
    IN  Ok(GALVO_LASER_OVERRIDE(p3, "OFF"))

---------------------------------------------------------------------------
(* Rectangle3D *)

Rectangle3D_draw_on_returning(self) == Ok(EmptyProgram)

\* The raise is the first statement; the rest of the body is unreachable
Rectangle3D_draw_on(self) == Raise("NotImplementedError")

---------------------------------------------------------------------------
(* Dispatch of draw_on over the shape classes *)

draw_on(self) ==
    CASE self.kind = "SingleLine" -> SingleLine_draw_on(self)
      [] self.kind \in {"XLines", "YLines"} -> Lines_draw_on(self)
      [] self.kind = "PolyLine" -> PolyLine_draw_on(self)
      [] self.kind = "PolyLines" -> PolyLines_draw_on(self)
      [] self.kind = "Corner" -> Corner_draw_on(self)
      [] self.kind = "CornerRectangle" -> CornerRectangle_draw_on(self)
      [] self.kind = "VerticalLine" -> VerticalLine_draw_on(self)
      [] self.kind = "Rectangle3D" -> Rectangle3D_draw_on(self)

\* draw_on as it would leave a VerticalLine if point were self.position's
\* own mapping instead of the copy as_dict() returns
draw_on_self_aliasing(self) ==
    IF self.kind = "VerticalLine"
    THEN [self EXCEPT !.position =
             [k \in DOMAIN self.position \cup {"Z"} |->
                 IF k = "Z" THEN self.z_max ELSE self.position[k]]]
    ELSE self

\* The object after draw_on: no draw_on assigns an attribute of self
\* (change_start, point and program are locals)
draw_on_self(self) == self

---------------------------------------------------------------------------
(* PlaneFit: integer linear algebra behind np.linalg.lstsq *)

RECURSIVE Sum(_, _)
Sum(f, k) == IF k = 0 THEN 0 ELSE f[k] + Sum(f, k - 1)

Dot(u, v) == Sum([i \in 1..Len(u) |-> u[i] * v[i]], Len(u))

\* M with its first row and its j-th column struck out
Minor(M, j) ==
    [a \in 1..(Len(M) - 1) |->
        [b \in 1..(Len(M) - 1) |-> M[a + 1][IF b < j THEN b ELSE b + 1]]]

RECURSIVE Det(_)
Det(M) ==
    IF Len(M) = 0 THEN 1
    ELSE IF Len(M) = 1 THEN M[1][1]
    ELSE Sum([j \in 1..Len(M) |->
                 (IF j % 2 = 1 THEN 1 ELSE -1) * M[1][j] * Det(Minor(M, j))],
             Len(M))

\* rows * rows^T
Gram(rows) ==
    [i \in 1..Len(rows) |-> [j \in 1..Len(rows) |-> Dot(rows[i], rows[j])]]

Independent(rows) == Det(Gram(rows)) # 0

\* A maximal independent list of rows of A, taken greedily from row k on
RECURSIVE RowBasis(_, _, _)
RowBasis(A, k, acc) ==
    IF k > Len(A) THEN acc
    ELSE IF Independent(Append(acc, A[k]))
         THEN RowBasis(A, k + 1, Append(acc, A[k]))
         ELSE RowBasis(A, k + 1, acc)

Rank(A) == Len(RowBasis(A, 1, << >>))

Identity3 == << <<1, 0, 0>>, <<0, 1, 0>>, <<0, 0, 1>> >>

\* M with column i replaced by v
ReplaceColumn(M, i, v) ==
    [a \in 1..Len(M) |-> [b \in 1..Len(M) |-> IF b = i THEN v[a] ELSE M[a][b]]]

\* The minimum-norm least-squares solution of A x = b: x = R^T y for a
\* basis R of the row space of A, y solving (B^T B) y = B^T b, B = A R^T
lstsq_solution(A, b) ==
    LET Rb == IF Rank(A) = 3 THEN Identity3 ELSE RowBasis(A, 1, << >>)
        r == Len(Rb)
        B == [i \in 1..Len(A) |-> [j \in 1..r |-> Dot(A[i], Rb[j])]]
        col(j) == [i \in 1..Len(A) |-> B[i][j]]
        M == [i \in 1..r |-> [j \in 1..r |-> Dot(col(i), col(j))]]
        v == [i \in 1..r |-> Dot(col(i), b)]
        y == [i \in 1..r |-> Det(ReplaceColumn(M, i, v))]
    IN  [j \in 1..3 |->
            Rat(Sum([i \in 1..r |-> Rb[i][j] * y[i]], r), Det(M))]

\* lstsq as np.linalg.solve on the normal equations would behave: a
\* singular A^T A raises LinAlgError
lstsq_by_normal_equations(A, b) ==
    IF Rank(A) < 3 THEN [err |-> "LinAlgError", x |-> << >>]
    ELSE [err |-> "None", x |-> lstsq_solution(A, b)]

\* np.linalg.lstsq(A, b, rcond=None)[0]: never raises for a rank-deficient A
lstsq(A, b) == [err |-> "None", x |-> lstsq_solution(A, b)]

---------------------------------------------------------------------------
(* PlaneFit *)

\* No object, no error, no query result
NoObj == [kind |-> "None"]
NoErr == [type |-> "None", index |-> 0]
NoResult == [kind |-> "None"]

\* A after A[:,-1] = 1.0 as it would be if that assignment were missing
DesignMatrix_without_ones(points) == points

\* A = np.array(points); A[:,-1] = 1.0
DesignMatrix(points) ==
    [i \in 1..Len(points) |-> <<points[i][1], points[i][2], 1>>]

\* b = np.array(A[:,-1]), taken before the last column is overwritten
Heights(points) == [i \in 1..Len(points) |-> points[i][3]]

RECURSIVE RSum(_, _)
RSum(f, k) == IF k = 0 THEN R(0) ELSE RAdd(f[k], RSum(f, k - 1))

\* np.dot of a rational vector with an integer vector
RDot(p, u) == RSum([i \in 1..Len(p) |-> RMul(p[i], R(u[i]))], Len(p))

RAbs(a) == [n |-> Abs(a.n), d |-> a.d]

getz(params, x, y) == RDot(params, <<x, y, 1>>)

getvec(params, x, y) == <<R(x), R(y), getz(params, x, y)>>

VecSub(u, v) == [i \in 1..Len(u) |-> RSub(u[i], v[i])]

cross(u, v) ==
    << RSub(RMul(u[2], v[3]), RMul(u[3], v[2])),
       RSub(RMul(u[3], v[1]), RMul(u[1], v[3])),
       RSub(RMul(u[1], v[2]), RMul(u[2], v[1])) >>

\* x, y, z = np.cross(p1, p2)
normal(params) ==
    LET p0 == getvec(params, 0, 0)
        p1 == VecSub(getvec(params, 1, 0), p0)
        p2 == VecSub(getvec(params, 0, 1), p0)
    IN  cross(p1, p2)

\* An angle in degrees: the multiple deg of 45 when exact, otherwise some
\* value strictly between deg and deg + 45
Angle(deg, exact) == [deg |-> deg, exact |-> exact]

\* np.arctan2(y, x) * 180.0 / np.pi, a value in (-180, 180]
arctan2_deg(y, x) ==
    LET sx == RSign(x)
        sy == RSign(y)
        ax == RAbs(x)
        ay == RAbs(y)
    IN  IF sy = 0 THEN Angle(IF sx < 0 THEN 180 ELSE 0, TRUE)
        ELSE IF sx = 0 THEN Angle(sy * 90, TRUE)
        ELSE IF ax = ay
             THEN Angle(sy * (IF sx > 0 THEN 45 ELSE 135), TRUE)
        ELSE IF sy > 0
             THEN Angle(IF sx > 0 THEN (IF RLt(ay, ax) THEN 0 ELSE 45)
                        ELSE (IF RLt(ax, ay) THEN 90 ELSE 135), FALSE)
        ELSE Angle(IF sx > 0 THEN (IF RLt(ay, ax) THEN -45 ELSE -90)
                   ELSE (IF RLt(ax, ay) THEN -135 ELSE -180), FALSE)

\* self.phi = (self.phi % 360) - 180
azimuth(raw) == Angle((raw.deg % 360) - 180, raw.exact)

\* PlaneFit.__init__(points): the object, or the error it raises.  avg and
\* slope are carried as their squares (avg_sq, slope_sq), theta is the
\* arctangent of slope
PlaneFit(points) ==
    IF Len(points) = 0
    THEN [err |-> "IndexError", self |-> NoObj]     \* A[:,-1] of a 1-d array
    ELSE LET A == DesignMatrix(points)
             b == Heights(points)
             fit == lstsq(A, b)
             params == fit.x
             dev == [i \in 1..Len(A) |-> RSub(RDot(params, A[i]), R(b[i]))]
             nv == normal(params)
         IN  IF fit.err # "None" THEN [err |-> fit.err, self |-> NoObj]
             ELSE [err |-> "None",
                   self |-> [kind |-> "PlaneFit", points |-> points,
                             params |-> params, dev |-> dev,
                             avg_sq |->
                                 RDiv(RSum([i \in 1..Len(dev) |->
                                               RMul(dev[i], dev[i])], Len(dev)),
                                      R(Len(dev) * Len(dev))),
                             slope_sq |->
                                 RDiv(RAdd(RMul(nv[1], nv[1]), RMul(nv[2], nv[2])),
                                      RMul(nv[3], nv[3])),
                             phi |-> azimuth(arctan2_deg(nv[2], nv[1]))]]

\* max_dev: np.max(np.abs(self.dev))
max_dev(self) ==
    CHOOSE m \in {RAbs(self.dev[i]) : i \in 1..Len(self.dev)} :
        \A i \in 1..Len(self.dev) : RLe(RAbs(self.dev[i]), m)

---------------------------------------------------------------------------
(* Plane: the plane detector *)

dzCoarseDefault == 100
dzFineDefault == 10

\* Plane.__init__: the initial estimates and no results yet
Plane(zlo, zup) == [kind |-> "Plane", zlo |-> zlo, zup |-> zup, steps |-> << >>]

\* Plane.run(x, y) for the result l of the layer scan: the step is appended
\* and the detected interfaces become the estimates of the next scan
Plane_run(self, x, y, l) ==
    LET pos == Len(self.steps)
        dz == IF self.zlo = self.zup THEN dzCoarseDefault ELSE dzFineDefault
    IN  [self EXCEPT
            !.steps = Append(@, [scan |-> pos, x |-> x, y |-> y,
                                 zLowerInit |-> self.zlo, zLower |-> l.zLower,
                                 dzLower |-> l.dzLower,
                                 zUpperInit |-> self.zup, zUpper |-> l.zUpper,
                                 dzUpper |-> l.dzUpper,
                                 dzInit |-> dz, layerUuid |-> l.uuid]),
            !.zlo = l.zLower,
            !.zup = l.zUpper]

\* One entry of the result of _pop_results, read from the fitted plane
FitEntryOf(plane) ==
    [xSlope |-> plane.params[1], ySlope |-> plane.params[2],
     z0 |-> plane.params[3], avgDeviation_sq |-> plane.avg_sq,
     maxDeviation |-> max_dev(plane), gradient_sq |-> plane.slope_sq,
     azimuthAngle |-> plane.phi, points |-> plane.points]

\* plane = PlaneFit(points), fitted once, and its entry
FitEntry(points) ==
    CHOOSE entry \in {FitEntryOf(plane) : plane \in {PlaneFit(points).self}} :
        TRUE

LowerPoints(steps) ==
    [i \in 1..Len(steps) |-> <<steps[i].x, steps[i].y, steps[i].zLower>>]

UpperPoints(steps) ==
    [i \in 1..Len(steps) |-> <<steps[i].x, steps[i].y, steps[i].zUpper>>]

\* The loop of _pop_results over ("lower", lower) and ("upper", upper)
FitResults(steps) ==
    [key \in {"lower", "upper"} |->
        FitEntry(IF key = "lower" THEN LowerPoints(steps)
                 ELSE UpperPoints(steps))]

\* _pop_results as it would be without self.steps = []
Plane_pop_results_keeping_steps(self) ==
    [result |-> FitResults(self.steps), steps |-> self.steps, self |-> self]

\* Plane._pop_results: result, steps and the object with its list emptied
Plane_pop_results(self) ==
    [result |-> FitResults(self.steps),
     steps |-> self.steps,
     self |-> [self EXCEPT !.steps = << >>]]

\* refs[f"scan-{step['scan']:02d}"] = step["layerUuid"], keyed here by the
\* scan number; a later step of the same number overwrites an earlier one
References(steps) ==
    [s \in {steps[i].scan : i \in 1..Len(steps)} |->
        LET last == CHOOSE i \in 1..Len(steps) :
                        /\ steps[i].scan = s
                        /\ \A j \in (i + 1)..Len(steps) : steps[j].scan # s
        IN  steps[last].layerUuid]

\* Plane.container(): the outcome of the call and the object after it
Plane_container(self) ==
    IF Len(self.steps) = 0
    THEN [out |-> Raised("RuntimeError"), self |-> self]
    ELSE LET popped == Plane_pop_results(self)
         IN  [out |-> [kind |-> "container",
                       references |-> References(popped.steps),
                       steps |-> popped.steps,
                       result |-> popped.result],
              self |-> popped.self]

---------------------------------------------------------------------------
(* Inputs *)

Coords == {0, 1, 2}
Segments == Coords \X Coords
SegLists == UNION {[1..k -> Segments] : k \in 0..MaxSegs}
Velocities == {1, 2}
Accelerations == {0, 1, 4}
Secondary == {5}
Rates == {None, R(7)}
Points2 == {[X |-> R(x), Y |-> R(y)] : x \in 0..1, y \in 0..1}

PointLists == UNION {[1..k -> Points2] : k \in 0..MaxPts}

\* The lines of a batch: len points climbing from (s + 1, s)
StairLine(s, len) == [i \in 1..len |-> [X |-> R(s + i), Y |-> R(s)]]
BatchLines == {StairLine(s, len) : s \in 0..1, len \in 0..MaxPts}
Batches == UNION {[1..k -> BatchLines] : k \in 0..MaxLines}

CornerCenters == {[X |-> R(1), Y |-> R(2), Z |-> R(10)]}
CornerLengths == {R(3)}
CornerWidths == {R(w) : w \in 1..MaxDim}
CornerHeights == {R(h) : h \in 0..MaxDim}
HatchSizes == {R(1), R(2), Rat(1, 2)}
LayerHeights == {R(1), Rat(3, 4)}
Rotations == {0, 90, 180, 270}
CoordinateSystems == {"cs1", "cs2"}
ShapeKinds == {"SingleLine", "XLines", "YLines", "PolyLine", "PolyLines",
               "Corner", "CornerRectangle", "VerticalLine", "Rectangle3D"}

\* Samples: lateral positions, three of them on one line, and two heights
SamplePositions == {<<0, 0>>, <<1, 0>>, <<2, 0>>, <<0, 1>>}
SampleHeights == {0, 1, 2}
Samples == {<<p[1], p[2], z>> : p \in SamplePositions, z \in SampleHeights}

\* The samples of S as a list, by increasing x, then y, then z
RECURSIVE ListOf(_)
ListOf(S) ==
    IF S = {} THEN << >>
    ELSE LET key(s) == 100 * s[1] + 10 * s[2] + s[3]
             first == CHOOSE s \in S : \A t \in S : key(s) <= key(t)
         IN  <<first>> \o ListOf(S \ {first})

SampleLists == {ListOf(S) : S \in {T \in SUBSET Samples : Cardinality(T) <= MaxSamples}}
\* Plane: initial estimates, scan positions and the results of a layer scan
InitialEstimates == {0, 5}
ScanPositions == {<<0, 0>>, <<1, 0>>}
LayerResults ==
    {[zLower |-> zl, zUpper |-> 5, dzLower |-> 1, dzUpper |-> 1, uuid |-> u] :
        zl \in {0, 1}, u \in {"uuid-a", "uuid-b"}}
QueryPositions == {<<1, 1>>, <<2, 0>>}


---------------------------------------------------------------------------
(* State machine *)

Init ==
    /\ args = NoObj
    /\ obj = NoObj
    /\ err = NoErr
    /\ program = EmptyProgram
    /\ drawn = FALSE
    /\ coordinate_system = "None"
    /\ draws = 0
    /\ result = NoResult

Idle == args = NoObj

\* A constructor call with arguments a that raises e (or none)
Construct(a, e) ==
    /\ args' = a
    /\ err' = e
    /\ obj' = IF e.type = "None" THEN a ELSE NoObj
    /\ UNCHANGED <<program, drawn, coordinate_system, draws, result>>

NewSingleLine ==
    /\ Idle
    /\ \E s \in Points2, e \in Points2, F \in Rates :
        Construct([kind |-> "SingleLine", start |-> s, end |-> e,
                   F |-> F, E |-> None], NoErr)

NewLines(axis, lines, secondary, velocity, acceleration) ==
    Construct([kind |-> IF axis = "X" THEN "XLines" ELSE "YLines",
               line_axis |-> axis, lines |-> lines,
               secondary_position |-> secondary,
               velocity |-> velocity, acceleration |-> acceleration],
              validate_lines(lines))

NewXLines ==
    /\ Idle
    /\ \E y \in Secondary, lines \in SegLists,
           velocity \in Velocities, acceleration \in Accelerations :
        NewLines("X", lines, [Y |-> y, Z |-> 9], velocity, acceleration)

NewYLines ==
    /\ Idle
    /\ \E x \in Secondary, lines \in SegLists,
           velocity \in Velocities, acceleration \in Accelerations :
        NewLines("Y", lines, [X |-> x, Z |-> 9], velocity, acceleration)

NewPolyLine ==
    /\ Idle
    /\ \E line \in PointLists, F \in Rates :
        Construct(PolyLine(line, F, None), NoErr)

NewPolyLines ==
    /\ Idle
    /\ \E lines \in Batches, F \in Rates :
        Construct(PolyLines(lines, F, None), NoErr)

NewCorner ==
    /\ Idle
    /\ \E corner_center \in CornerCenters, length \in CornerLengths,
           width \in CornerWidths, height \in CornerHeights,
           hatch_size \in HatchSizes, layer_height \in LayerHeights,
           rotation_degree \in Rotations :
        Construct(Corner(corner_center, length, width, height, hatch_size,
                         layer_height, rotation_degree, R(7), None), NoErr)

NewCornerRectangle ==
    /\ Idle
    /\ \E rectangle_width \in {R(2), R(4)}, corner_width \in {R(1), R(2)},
           height \in {R(0), R(1), Rat(3, 2)}, hatch_size \in {R(1), R(2)} :
        Construct(CornerRectangle([X |-> R(0), Y |-> R(0), Z |-> R(0)],
                                  rectangle_width, R(2), R(3), corner_width,
                                  height, R(1), hatch_size, R(7), None),
                  NoErr)

NewVerticalLine ==
    /\ Idle
    /\ \E position \in Points2, z_min \in 0..1, z_max \in 0..1, F \in Rates :
        Construct([kind |-> "VerticalLine", position |-> position,
                   z_min |-> R(z_min), z_max |-> R(z_max), F |-> F], NoErr)

NewRectangle3D ==
    /\ Idle
    /\ \E width \in {R(1), R(2)}, length \in {R(1), R(2)},
           structure_height \in {R(0), R(1)}, hatch_size \in HatchSizes :
        Construct([kind |-> "Rectangle3D",
                   bottom_left |-> [X |-> R(0), Y |-> R(0), Z |-> R(0)],
                   width |-> width, length |-> length,
                   height |-> structure_height, layer_height |-> R(1),
                   hatch_size |-> hatch_size, velocity |-> None], NoErr)

DrawOn ==
    /\ obj.kind \in ShapeKinds
    /\ draws < MaxDraws
    /\ \E c \in CoordinateSystems :
           /\ coordinate_system' = c
           /\ LET r == draw_on(obj)
              IN  /\ program' = r.prog
                  /\ err' = [type |-> r.err, index |-> 0]
    /\ obj' = draw_on_self(obj)
    /\ drawn' = TRUE
    /\ draws' = draws + 1
    /\ UNCHANGED <<args, result>>

NewPlane ==
    /\ Idle
    /\ \E zlo \in InitialEstimates, zup \in InitialEstimates :
           Construct(Plane(zlo, zup), NoErr)

PlaneRun ==
    /\ obj.kind = "Plane"
    /\ Len(obj.steps) < MaxSteps
    /\ \E p \in ScanPositions, l \in LayerResults :
           obj' = Plane_run(obj, p[1], p[2], l)
    /\ result' = Returned(None)
    /\ UNCHANGED <<args, err, program, drawn, coordinate_system, draws>>

PlaneContainer ==
    /\ obj.kind = "Plane"
    /\ \E r \in {Plane_container(obj)} :
           /\ result' = r.out
           /\ obj' = r.self
    /\ UNCHANGED <<args, err, program, drawn, coordinate_system, draws>>

NewPlaneFit ==
    /\ Idle
    /\ \E points \in SampleLists :
           LET r == PlaneFit(points)
           IN  /\ args' = [kind |-> "PlaneFit", points |-> points]
               /\ obj' = r.self
               /\ err' = [type |-> r.err, index |-> 0]
    /\ UNCHANGED <<program, drawn, coordinate_system, draws, result>>

GetZ ==
    /\ obj.kind = "PlaneFit"
    /\ result = NoResult
    /\ \E q \in QueryPositions :
           result' = [kind |-> "getz", x |-> q[1], y |-> q[2],
                      value |-> getz(obj.params, q[1], q[2])]
    /\ UNCHANGED <<args, obj, err, program, drawn, coordinate_system, draws>>

CenterPoint ==
    /\ obj.kind \in {"PolyLine", "PolyLines"}
    /\ result = NoResult
    /\ result' = center_point(obj)
    /\ UNCHANGED <<args, obj, err, program, drawn, coordinate_system, draws>>

Discard ==
    /\ ~Idle
    /\ args' = NoObj
    /\ obj' = NoObj
    /\ err' = NoErr
    /\ program' = EmptyProgram
    /\ drawn' = FALSE
    /\ coordinate_system' = "None"
    /\ draws' = 0
    /\ result' = NoResult

Next ==
    \/ NewSingleLine
    \/ NewXLines
    \/ NewYLines
    \/ NewPolyLine
    \/ NewPolyLines
    \/ NewCorner
    \/ NewCornerRectangle
    \/ NewVerticalLine
    \/ NewRectangle3D
    \/ DrawOn
    \/ CenterPoint
    \/ NewPlaneFit
    \/ GetZ
    \/ NewPlane
    \/ PlaneRun
    \/ PlaneContainer
    \/ Discard

Spec == Init /\ [][Next]_vars

---------------------------------------------------------------------------
(* Vocabulary of the properties *)

\* draw_on has returned a program for obj
Lowered == drawn /\ err.type = "None"

IsSweep(o) == o.kind \in {"XLines", "YLines"}

IsGate(ins, mode) == ins.op = "GALVO_LASER_OVERRIDE" /\ ins.kw.mode = mode

\* ins is a Move whose coordinates are exactly those of point p
IsMoveTo(ins, p) == ins.op = "LINEAR" /\ \A k \in DOMAIN p : ins.kw[k] = p[k]

IsGateInstr(ins) == ins.op = "GALVO_LASER_OVERRIDE"

Gates(prog) == SelectSeq(prog, IsGateInstr)

\* The swept-axis coordinate of a sweep Move
Swept(o, ins) == IF o.line_axis = "X" THEN ins.kw.X ELSE ins.kw.Y

SegDir(seg) == IF seg[2] > seg[1] THEN 1 ELSE IF seg[2] < seg[1] THEN -1 ELSE 0

Mixed(lines) == \E i, j \in 1..Len(lines) : SegDir(lines[i]) # SegDir(lines[j])

AllSameDirection(lines) ==
    \A i \in 1..Len(lines) : SegDir(lines[i]) = SegDir(lines[1])

\* lines with segment j (counted from 0) reversed
ReverseAt(lines, j) ==
    [i \in 1..Len(lines) |->
        IF i = j + 1 THEN <<lines[i][2], lines[i][1]>> ELSE lines[i]]

Ceil(q) == -((-q.n) \div q.d)

---------------------------------------------------------------------------
(* C1: the gate instructions of every lowered program, read in program    *)
(* order, alternate ON, OFF, ON, OFF, ..., begin with ON and end with OFF *)
C1_GatesAlternate ==
    Lowered =>
        LET g == Gates(program)
        IN  /\ Len(g) % 2 = 0
            /\ \A i \in 1..Len(g) :
                   g[i].kw.mode = IF i % 2 = 1 THEN "ON" ELSE "OFF"

C1_Witness ==
    /\ Lowered
    /\ obj.kind = "CornerRectangle"
    /\ Len(Gates(program)) >= 16

(* C2: a sweep constructed from segments of mixed direction fails with    *)
(* the direction-mismatch error: no such object exists, none is lowered   *)
C2_MixedRejected ==
    /\ (IsSweep(args) /\ Mixed(args.lines)) =>
           /\ err.type = "ValueError"
           /\ obj = NoObj
           /\ ~drawn
           /\ program = EmptyProgram
    /\ IsSweep(obj) => ~Mixed(obj.lines)

C2_Witness ==
    /\ IsSweep(args)
    /\ Len(args.lines) >= 3
    /\ SegDir(args.lines[1]) = SegDir(args.lines[2])
    /\ SegDir(args.lines[3]) # SegDir(args.lines[1])
    /\ err.type = "ValueError"

(* C3 as stated: whenever the constructed list is a valid list of two or  *)
(* more segments with the segment at index j reversed, construction fails *)
(* with an error that names index j (j = 0 included)                      *)
C3_ReversedIndexNamed ==
    (IsSweep(args) /\ Len(args.lines) >= 2) =>
        \A j \in 0..(Len(args.lines) - 1) :
            (/\ AllSameDirection(ReverseAt(args.lines, j))
             /\ ReverseAt(args.lines, j) # args.lines) =>
                (err.type = "ValueError" /\ err.index = j)

(* C3 as amended: for segments of nonzero length, construction fails with *)
(* the direction-mismatch error, which names j when j >= 1 and names 1,   *)
(* the first line that disagrees with line 0, when j = 0                  *)
C3_ReversedIndexAmended ==
    (IsSweep(args) /\ Len(args.lines) >= 2) =>
        \A j \in 0..(Len(args.lines) - 1) :
            (/\ AllSameDirection(ReverseAt(args.lines, j))
             /\ \A i \in 1..Len(args.lines) : SegDir(args.lines[i]) # 0) =>
                (/\ err.type = "ValueError"
                 /\ err.index = IF j = 0 THEN 1 ELSE j
                 /\ obj = NoObj)

C3_Witness ==
    /\ IsSweep(args)
    /\ Len(args.lines) >= 3
    /\ AllSameDirection(ReverseAt(args.lines, 0))
    /\ \A i \in 1..Len(args.lines) : SegDir(args.lines[i]) # 0
    /\ err.type = "ValueError"
    /\ err.index = 1

(* C4: the lead distance of a sweep is v * v / (2 * a); the first Move    *)
(* targets lines[0].start - d * lead and the last Move targets            *)
(* lines[last].end + d * lead on the swept axis, d the first segment's    *)
(* direction (v = 200, a = 1000 gives a lead of 20)                       *)
C4_LeadDistance ==
    /\ acceleration_distance([velocity |-> 200, acceleration |-> 1000]) = R(20)
    /\ (Lowered /\ IsSweep(obj) /\ obj.acceleration > 0) =>
           LET lead == Rat(obj.velocity * obj.velocity, 2 * obj.acceleration)
               d == SegDir(obj.lines[1])
               last == obj.lines[Len(obj.lines)]
           IN  /\ program[1].op = "LINEAR"
               /\ program[Len(program)].op = "LINEAR"
               /\ Swept(obj, program[1]) =
                      Rat(obj.lines[1][1] * lead.d - d * lead.n, lead.d)
               /\ Swept(obj, program[Len(program)]) =
                      Rat(last[2] * lead.d + d * lead.n, lead.d)

C4_Witness ==
    /\ Lowered
    /\ IsSweep(obj)
    /\ Len(obj.lines) >= 2
    /\ SegDir(obj.lines[1]) = -1
    /\ obj.velocity = 1
    /\ obj.acceleration = 4
    /\ Swept(obj, program[1]) = Rat(8 * obj.lines[1][1] + 1, 8)

(* C5: a lowered sweep of n >= 1 segments is 4n + 2 instructions: the     *)
(* approach Move, then per segment in list order Move(start), gate ON,    *)
(* Move(end), gate OFF, then the departure Move; every Move carries the   *)
(* sweep velocity as its feed rate                                        *)
C5_SweepLayout ==
    (Lowered /\ IsSweep(obj)) =>
        LET n == Len(obj.lines)
        IN  /\ n >= 1
            /\ Len(program) = 4 * n + 2
            /\ program[1].op = "LINEAR"
            /\ program[4 * n + 2].op = "LINEAR"
            /\ \A k \in 1..n :
                   /\ program[4 * k - 2].op = "LINEAR"
                   /\ Swept(obj, program[4 * k - 2]) = R(obj.lines[k][1])
                   /\ IsGate(program[4 * k - 1], "ON")
                   /\ program[4 * k].op = "LINEAR"
                   /\ Swept(obj, program[4 * k]) = R(obj.lines[k][2])
                   /\ IsGate(program[4 * k + 1], "OFF")
            /\ \A i \in 1..Len(program) :
                   program[i].op = "LINEAR" => program[i].kw.F = R(obj.velocity)

C5_Witness ==
    /\ Lowered
    /\ IsSweep(obj)
    /\ Len(obj.lines) >= 2
    /\ obj.lines[1] # obj.lines[2]
    /\ Len(program) = 4 * Len(obj.lines) + 2

(* C6: a lowered PolyLine of points p0..pm, m >= 1, is exactly Move(p0),  *)
(* gate ON, Move(p1), ..., Move(pm), gate OFF: m + 3 instructions, with   *)
(* no lead-in or lead-out Move                                            *)
C6_PolyLineLayout ==
    (Lowered /\ obj.kind = "PolyLine" /\ Len(obj.line) >= 2) =>
        LET m == Len(obj.line) - 1
        IN  /\ Len(program) = m + 3
            /\ IsMoveTo(program[1], obj.line[1])
            /\ IsGate(program[2], "ON")
            /\ \A k \in 1..m : IsMoveTo(program[2 + k], obj.line[k + 1])
            /\ IsGate(program[m + 3], "OFF")

C6_Witness ==
    /\ Lowered
    /\ obj.kind = "PolyLine"
    /\ Len(obj.line) >= 3
    /\ obj.line[1] # obj.line[2]
    /\ obj.line[2] # obj.line[3]
    /\ IsGate(program[Len(program)], "OFF")

\* Where the block of line i (counted from 0) starts in a lowered batch
RECURSIVE BlockOffset(_, _)
BlockOffset(lines, i) ==
    IF i = 0 THEN 0 ELSE BlockOffset(lines, i - 1) + Len(lines[i]) + 3

(* C7: a lowered PolyLines batch is, for i = 0..k in order, one comment   *)
(* naming i followed by exactly the program of PolyLine(Li) alone, and    *)
(* nothing else                                                           *)
C7_BatchConcatenation ==
    (Lowered /\ obj.kind = "PolyLines") =>
        /\ Len(program) = BlockOffset(obj.lines, Len(obj.lines))
        /\ \A i \in 0..(Len(obj.lines) - 1) :
               LET off == BlockOffset(obj.lines, i)
                   alone == PolyLine_draw_on(PolyLine(obj.lines[i + 1], obj.F, obj.E))
               IN  /\ program[off + 1].op = "comment"
                   /\ program[off + 1].kw.i = i
                   /\ alone.err = "None"
                   /\ SubSeq(program, off + 2, off + 1 + Len(alone.prog)) = alone.prog
                   /\ Len(alone.prog) = Len(obj.lines[i + 1]) + 2

C7_Witness ==
    /\ Lowered
    /\ obj.kind = "PolyLines"
    /\ Len(obj.lines) >= 2
    /\ Len(obj.lines[1]) # Len(obj.lines[2])
    /\ program[Len(obj.lines[1]) + 4].op = "comment"

\* The instructions of one stroke of a lowered Corner: a comment, a Move,
\* the gate, two Moves and the gate
StrokeLen == 6

(* C8: for every Corner with width > 0 and hatch_size > 0 the pitch is    *)
(* well defined: lowering returns a program whose layers hold             *)
(* n = round(width / hatch_size) + 1 strokes, and (n - 1) * pitch = width *)
C8_HatchPitch ==
    (drawn /\ obj.kind = "Corner" /\ RLt(R(0), obj.width)
           /\ RLt(R(0), obj.hatch_size)) =>
        LET n == round(RDiv(obj.width, obj.hatch_size)) + 1
            layers == Ceil(RDiv(obj.height, obj.layer_height))
        IN  /\ err.type = "None"
            /\ n >= 2
            /\ RMul(R(n - 1), RDiv(obj.width, R(n - 1))) = obj.width
            /\ Len(program) = layers * n * StrokeLen

\* The centre of layer k of Corner o
LayerCenter(o, k) ==
    [o.corner_center EXCEPT !.Z = RAdd(@, RMul(R(k), o.layer_height))]

(* C9: in a lowered Corner the stroke at layer k, index i is emitted as   *)
(* p1, p2, p3 when (i + k) mod 2 = 0 and as p3, p2, p1 when it is 1       *)
C9_Serpentine ==
    (Lowered /\ obj.kind = "Corner") =>
        LET n == round(RDiv(obj.width, obj.hatch_size)) + 1
            hatch == RDiv(obj.width, R(n - 1))
            layers == Len(program) \div (n * StrokeLen)
        IN  \A k \in 0..(layers - 1), i \in 0..(n - 1) :
                LET base == (k * n + i) * StrokeLen
                    cc == LayerCenter(obj, k)
                    p1 == corner_p1(cc, obj.length, obj.width, i, n, hatch, obj.rotation_degree)
                    p2 == corner_p2(cc, obj.length, obj.width, i, n, hatch, obj.rotation_degree)
                    p3 == corner_p3(cc, obj.length, obj.width, i, n, hatch, obj.rotation_degree)
                    a == IF (i + k) % 2 = 0 THEN p1 ELSE p3
                    c == IF (i + k) % 2 = 0 THEN p3 ELSE p1
                IN  /\ IsMoveTo(program[base + 2], a)
                    /\ IsGate(program[base + 3], "ON")
                    /\ IsMoveTo(program[base + 4], p2)
                    /\ IsMoveTo(program[base + 5], c)
                    /\ IsGate(program[base + 6], "OFF")

C9_Witness ==
    /\ Lowered
    /\ obj.kind = "Corner"
    /\ Len(program) >= 2 * 3 * StrokeLen
    /\ round(RDiv(obj.width, obj.hatch_size)) + 1 = 3
    /\ ~IsMoveTo(program[2], [X |-> program[5].kw.X, Y |-> program[5].kw.Y])
    /\ IsMoveTo(program[3 * StrokeLen + 5],
                [X |-> program[2].kw.X, Y |-> program[2].kw.Y])

(* C10: a Corner with height > 0 and layer_height > 0 is lowered into     *)
(* ceil(height / layer_height) layers in increasing k, layer k at         *)
(* z = k * layer_height above the corner center, every z below height     *)
C10_LayerCount ==
    (Lowered /\ obj.kind = "Corner" /\ RLt(R(0), obj.height)
             /\ RLt(R(0), obj.layer_height)) =>
        LET n == round(RDiv(obj.width, obj.hatch_size)) + 1
            layers == Ceil(RDiv(obj.height, obj.layer_height))
        IN  /\ Len(program) = layers * n * StrokeLen
            /\ \A k \in 0..(layers - 1) :
                   /\ RLt(RMul(R(k), obj.layer_height), obj.height)
                   /\ \A t \in 1..(n * StrokeLen) :
                          LET ins == program[k * n * StrokeLen + t]
                          IN  ins.op = "LINEAR" =>
                                  ins.kw.Z = RAdd(obj.corner_center.Z,
                                                  RMul(R(k), obj.layer_height))

C10_Witness ==
    /\ Lowered
    /\ obj.kind = "Corner"
    /\ obj.height = R(3)
    /\ obj.layer_height = Rat(3, 4)
    /\ LET n == round(RDiv(obj.width, obj.hatch_size)) + 1
       IN  /\ Len(program) = 4 * n * StrokeLen
           /\ program[3 * n * StrokeLen + 2].kw.Z =
                  RAdd(obj.corner_center.Z, Rat(9, 4))

---------------------------------------------------------------------------
(* C11: a lowered CornerRectangle is exactly four blocks in the order     *)
(* top-left, top-right, bottom-right, bottom-left; each block is the      *)
(* corner's Comment followed at once by the lowering of a Corner with     *)
(* rotation 0, 90, 180, 270 placed at center + (-w/2,-h/2), (+w/2,-h/2),  *)
(* (+w/2,+h/2), (-w/2,+h/2), sharing length, width, height, layer_height, *)
(* hatch_size and rates                                                   *)
C11_Block(text, dx, dy, rot) ==
    << [op |-> "comment", kw |-> [text |-> text, i |-> 0]] >> \o
    Corner_draw_on(Corner(PointAdd(obj.center, Point2D(dx, dy)),
                          obj.corner_length, obj.corner_width, obj.height,
                          obj.hatch_size, obj.layer_height, rot,
                          obj.F, obj.E)).prog

C11_FourCorners ==
    (Lowered /\ obj.kind = "CornerRectangle") =>
        LET hw == RDiv(obj.rectangle_width, R(2))
            hh == RDiv(obj.rectangle_height, R(2))
        IN  program =
                C11_Block("Drawing Top Left corner", RNeg(hw), RNeg(hh), 0) \o
                C11_Block("Drawing Top Right corner", hw, RNeg(hh), 90) \o
                C11_Block("Drawing Bottom Right corner", hw, hh, 180) \o
                C11_Block("Drawing Bottom Left corner", RNeg(hw), hh, 270)

\* A lowered CornerRectangle whose corners hold more than one layer
C11_Witness ==
    /\ Lowered
    /\ obj.kind = "CornerRectangle"
    /\ obj.height = Rat(3, 2)
    /\ Len(SelectSeq(program, LAMBDA ins : ins.op = "comment"
                                   /\ ins.kw.text = "Drawing Bottom Left corner")) = 1
    /\ Len(program) > 8

---------------------------------------------------------------------------
(* C12: draw_on of a Rectangle3D raises NotImplementedError for every     *)
(* parameter combination and every coordinate system, and no program,     *)
(* partial or complete, comes back                                        *)
C12_NotImplemented ==
    (draws >= 1 /\ obj.kind = "Rectangle3D") =>
        /\ err.type = "NotImplementedError"
        /\ program = EmptyProgram
        /\ ~Lowered

\* draw_on has been called on a Rectangle3D with the second coordinate system
C12_Witness ==
    /\ draws >= 1
    /\ obj.kind = "Rectangle3D"
    /\ coordinate_system = "cs2"
    /\ obj.height = R(1)
    /\ err.type = "NotImplementedError"

---------------------------------------------------------------------------
(* C18: in a lowered sweep the approach Move and the departure Move set   *)
(* the non-swept lateral axis and Z to the secondary position, every Move *)
(* in between names the swept axis (and the rate) only, so no Move        *)
(* commands any other value on those two axes                             *)
C18_OtherAxis == IF obj.line_axis = "X" THEN "Y" ELSE "X"

C18_SecondaryHeld ==
    (Lowered /\ IsSweep(obj)) =>
        LET n == Len(program)
            held == {C18_OtherAxis, "Z"}
            sec == obj.secondary_position
        IN  /\ n >= 2
            /\ \A i \in {1, n} :
                   /\ program[i].op = "LINEAR"
                   /\ DOMAIN program[i].kw = {obj.line_axis, "F"} \cup held
                   /\ \A k \in held : program[i].kw[k] = R(sec[k])
            /\ \A i \in 2..(n - 1) :
                   program[i].op = "LINEAR" =>
                       DOMAIN program[i].kw = {obj.line_axis, "F"}
            /\ \A i \in 1..n : \A k \in held :
                   (program[i].op = "LINEAR" /\ k \in DOMAIN program[i].kw)
                       => program[i].kw[k] = R(sec[k])

\* A lowered Y sweep of two segments: approach, four segment Moves, departure
C18_Witness ==
    /\ Lowered
    /\ obj.kind = "YLines"
    /\ Len(obj.lines) = 2
    /\ Len(SelectSeq(program, LAMBDA ins : ins.op = "LINEAR")) = 6
    /\ program[1].kw.X = R(obj.secondary_position.X)
    /\ program[Len(program)].kw.Z = R(obj.secondary_position.Z)

---------------------------------------------------------------------------
(* C19: in every lowered sweep the swept-axis targets of the Moves, read  *)
(* in program order, are monotone in the sweep direction: non-decreasing  *)
(* for direction +1, non-increasing for direction -1                      *)
C19_Targets ==
    LET moves == SelectSeq(program, LAMBDA ins : ins.op = "LINEAR")
    IN  [i \in 1..Len(moves) |-> Swept(obj, moves[i])]

C19_MonotoneTargets ==
    (Lowered /\ IsSweep(obj)) =>
        LET t == C19_Targets
            d == direction(obj.lines[1])
        IN  \A i \in 1..(Len(t) - 1) :
                /\ (d = 1) => RLe(t[i], t[i + 1])
                /\ (d = -1) => RLe(t[i + 1], t[i])

---------------------------------------------------------------------------
(* Brackets: the positions of the ON gates of a program, in order, and    *)
(* the number of Moves between an ON gate and the next OFF gate           *)
OnPositions(prog) == {i \in 1..Len(prog) : IsGate(prog[i], "ON")}

NthOn(prog, k) ==
    CHOOSE i \in OnPositions(prog) :
        Cardinality({j \in OnPositions(prog) : j <= i}) = k

NextOff(prog, i) ==
    CHOOSE j \in (i + 1)..Len(prog) :
        /\ IsGate(prog[j], "OFF")
        /\ \A m \in (i + 1)..(j - 1) : ~IsGate(prog[m], "OFF")

BracketMoves(prog, i) ==
    Cardinality({m \in (i + 1)..(NextOff(prog, i) - 1) : prog[m].op = "LINEAR"})

\* The point lists whose brackets a PolyLine or PolyLines program holds
C20_Lines == IF obj.kind = "PolyLine" THEN <<obj.line>> ELSE obj.lines

(* C20 as stated: in every lowered program each ON/OFF bracket encloses   *)
(* at least one Move, single-point PolyLines and PolyLines entries        *)
(* included                                                               *)
C20_BracketHasMove ==
    Lowered => \A i \in OnPositions(program) : BracketMoves(program, i) >= 1

(* C20 amended: the bracket of a PolyLine, or of the k-th entry of a      *)
(* PolyLines batch, holding m points encloses exactly m - 1 Moves, so it  *)
(* is empty exactly when the line is a single point; the brackets of      *)
(* every other shape enclose at least one Move                            *)
C20_BracketMovesAmended ==
    Lowered =>
        IF obj.kind \in {"PolyLine", "PolyLines"}
        THEN /\ Cardinality(OnPositions(program)) = Len(C20_Lines)
             /\ \A k \in 1..Len(C20_Lines) :
                    BracketMoves(program, NthOn(program, k))
                        = Len(C20_Lines[k]) - 1
        ELSE \A i \in OnPositions(program) : BracketMoves(program, i) >= 1

\* A lowered batch whose second entry is a single point: its bracket is
\* empty, the first entry's bracket is not
C20_Witness ==
    /\ Lowered
    /\ obj.kind = "PolyLines"
    /\ Len(obj.lines) = 2
    /\ Len(obj.lines[1]) = 3
    /\ Len(obj.lines[2]) = 1
    /\ BracketMoves(program, NthOn(program, 1)) = 2
    /\ BracketMoves(program, NthOn(program, 2)) = 0

---------------------------------------------------------------------------
---------------------------------------------------------------------------
(* C13: for every non-empty PolyLine and PolyLines batch whose points     *)
(* share one axis key set, center_point returns per axis (min + max) / 2  *)
(* over all contained points, as a point over those axes                  *)
C13_Points == IF obj.kind = "PolyLine" THEN obj.line ELSE Flatten(obj.lines, 1)

C13_AxisValues(k) == {C13_Points[i][k] : i \in 1..Len(C13_Points)}

RMin(S) == CHOOSE x \in S : \A y \in S : RLe(x, y)
RMax(S) == CHOOSE x \in S : \A y \in S : RLe(y, x)

C13_BoundingBoxCenter ==
    (/\ result # NoResult
     /\ obj.kind \in {"PolyLine", "PolyLines"}
     /\ Len(C13_Points) >= 1
     /\ \A i \in 1..Len(C13_Points) :
            DOMAIN C13_Points[i] = DOMAIN C13_Points[1])
    => result = Returned([k \in DOMAIN C13_Points[1] |->
                             RDiv(RAdd(RMin(C13_AxisValues(k)),
                                       RMax(C13_AxisValues(k))), R(2))])

---------------------------------------------------------------------------
(* Vocabulary of the plane-fit properties *)

Fitted == obj.kind = "PlaneFit"

\* No three samples at non-collinear lateral positions
Degenerate(points) ==
    ~ \E i, j, k \in 1..Len(points) :
          (points[j][1] - points[i][1]) * (points[k][2] - points[i][2])
        # (points[k][1] - points[i][1]) * (points[j][2] - points[i][2])

\* The angle a lies in (-180, 180]
InHalfOpenRange(a) ==
    IF a.exact THEN -180 < a.deg /\ a.deg <= 180
    ELSE -180 <= a.deg /\ a.deg + 45 <= 180

\* a and b differ by a whole multiple of 360
Congruent360(a, b) == a.exact = b.exact /\ (a.deg - b.deg) % 360 = 0

---------------------------------------------------------------------------
(* C14: the azimuth of every fitted plane lies in (-180, 180] and is      *)
(* congruent modulo 360 to atan2(normal_y, normal_x) in degrees: a normal *)
(* along -x gives 180, a normal along +x gives 0                          *)
C14_AzimuthNormalised ==
    Fitted =>
        LET nv == normal(obj.params)
        IN  /\ InHalfOpenRange(obj.phi)
            /\ Congruent360(obj.phi, arctan2_deg(nv[2], nv[1]))

---------------------------------------------------------------------------
(* C15 as stated: constructing a PlaneFit from fewer than 3 samples, or   *)
(* from samples at collinear positions, fails: no fit object, and so no   *)
(* plane parameters, comes back                                           *)
C15_DegenerateRejected ==
    (args.kind = "PlaneFit" /\ Degenerate(args.points)) =>
        (err.type # "None" /\ obj = NoObj)

NullBox == {<<a, b, c>> : a \in -2..2, b \in -2..2, c \in -2..2}

\* p solves the normal equations A^T (A p - z) = 0 of the samples
LeastSquares(points, p) ==
    LET A == DesignMatrix(points)
    IN  \A c \in 1..3 :
            RSum([i \in 1..Len(A) |->
                     RMul(R(A[i][c]), RSub(RDot(p, A[i]), R(points[i][3])))],
                 Len(A)) = R(0)

\* p is orthogonal to every direction the samples do not determine
MinimumNorm(points, p) ==
    LET A == DesignMatrix(points)
    IN  \A nv \in NullBox :
            (\A i \in 1..Len(A) : Dot(A[i], nv) = 0) => RDot(p, nv) = R(0)

(* C15 amended: construction from one or two samples, or from samples at  *)
(* collinear positions, does not fail: it yields the object whose params  *)
(* are the minimum-norm least-squares solution; only the empty sample     *)
(* list fails, with an IndexError                                         *)
C15_DegenerateFitAmended ==
    (args.kind = "PlaneFit" /\ Degenerate(args.points)) =>
        IF Len(args.points) = 0
        THEN err.type = "IndexError" /\ obj = NoObj
        ELSE /\ err = NoErr
             /\ Fitted
             /\ obj.points = args.points
             /\ LeastSquares(args.points, obj.params)
             /\ MinimumNorm(args.points, obj.params)

\* A fit returned for three samples on the line y = 0: the slope along y
\* is reported as 0, the slope along x is not
C15_Witness ==
    /\ Fitted
    /\ err = NoErr
    /\ Len(obj.points) = 3
    /\ \A i \in 1..3 : obj.points[i][2] = 0
    /\ {obj.points[i][1] : i \in 1..3} = {0, 1, 2}
    /\ Degenerate(obj.points)
    /\ obj.params[2] = R(0)
    /\ obj.params[1] # R(0)

---------------------------------------------------------------------------
(* C16: when the samples lie exactly on a plane z = sx*x + sy*y + z0 and  *)
(* three of them are at non-collinear positions, the fit returns          *)
(* params = (sx, sy, z0), every residual is 0, so mean and maximal        *)
(* deviation are 0, and getz(x, y) returns sx*x + sy*y + z0, at the       *)
(* samples and at every queried position                                  *)
Halves(lo, hi) == {Rat(k, 2) : k \in (2 * lo)..(2 * hi)}

KnownPlanes ==
    {<<sx, sy, z0>> : sx \in Halves(-2, 2), sy \in Halves(-4, 4),
                      z0 \in Halves(-2, 4)}

PlaneAt(plane, x, y) ==
    RAdd(RAdd(RMul(plane[1], R(x)), RMul(plane[2], R(y))), plane[3])

OnPlane(points, plane) ==
    \A i \in 1..Len(points) :
        R(points[i][3]) = PlaneAt(plane, points[i][1], points[i][2])

C16_RoundTrip ==
    (Fitted /\ ~Degenerate(obj.points)) =>
        \A plane \in KnownPlanes :
            OnPlane(obj.points, plane) =>
                /\ obj.params = plane
                /\ \A i \in 1..Len(obj.dev) : obj.dev[i] = R(0)
                /\ obj.avg_sq = R(0)
                /\ max_dev(obj) = R(0)
                /\ \A i \in 1..Len(obj.points) :
                       getz(obj.params, obj.points[i][1], obj.points[i][2])
                           = R(obj.points[i][3])
                /\ (result.kind = "getz") =>
                       result.value = PlaneAt(plane, result.x, result.y)

\* Four samples on the plane z = x + y, fitted, and getz asked away from
\* the samples
C16_Witness ==
    /\ Fitted
    /\ Len(obj.points) = 4
    /\ ~Degenerate(obj.points)
    /\ OnPlane(obj.points, <<R(1), R(1), R(0)>>)
    /\ result.kind = "getz"
    /\ result.x = 1
    /\ result.y = 1
    /\ result.value = R(2)

---------------------------------------------------------------------------
(* C21: in every layer of a lowered Corner the n strokes are centred on   *)
(* corner_center: the bend of stroke i and the bend of stroke n - 1 - i   *)
(* lie opposite each other about the layer's center, and the bends of the *)
(* first and the last stroke lie width / 2 from it on either axis         *)
C21_Bend(k, i, n) == program[(k * n + i) * StrokeLen + 4].kw

C21_CentredOffsets ==
    (Lowered /\ obj.kind = "Corner") =>
        LET n == round(RDiv(obj.width, obj.hatch_size)) + 1
            layers == Len(program) \div (n * StrokeLen)
            half == RDiv(obj.width, R(2))
        IN  \A k \in 0..(layers - 1) :
                LET cc == LayerCenter(obj, k)
                IN  /\ \A i \in 0..(n - 1) : \A a \in {"X", "Y"} :
                           RSub(C21_Bend(k, i, n)[a], cc[a])
                               = RNeg(RSub(C21_Bend(k, n - 1 - i, n)[a], cc[a]))
                    /\ \A i \in {0, n - 1} : \A a \in {"X", "Y"} :
                           RAbs(RSub(C21_Bend(k, i, n)[a], cc[a])) = half

---------------------------------------------------------------------------
(* C22: container() on a Plane without recorded steps raises RuntimeError *)
(* and leaves the object as it is; on a Plane with k >= 1 recorded steps  *)
(* it reports exactly those steps, numbered 0..k-1 in run order, with one *)
(* reference per step and the fits of their lower and upper points, and   *)
(* empties the step list; run() appends one step numbered by the length   *)
(* of the list, so the first run() after a container() is numbered 0 and  *)
(* a container() repeated at once raises                                  *)
C22_IsPlane == obj.kind = "Plane"

\* The recorded steps are numbered 0, 1, 2, ... in the order of the list
C22_Numbered ==
    C22_IsPlane => \A j \in 1..Len(obj.steps) : obj.steps[j].scan = j - 1

C22_ContainerCall ==
    /\ C22_IsPlane
    /\ obj'.kind = "Plane"
    /\ result'.kind \in {"container", "Raised"}

C22_RunCall ==
    /\ C22_IsPlane
    /\ obj'.kind = "Plane"
    /\ result' = Returned(None)

C22_Step ==
    /\ (C22_ContainerCall /\ Len(obj.steps) = 0) =>
           /\ result' = Raised("RuntimeError")
           /\ obj' = obj
    /\ (C22_ContainerCall /\ Len(obj.steps) >= 1) =>
           LET k == Len(obj.steps)
           IN  /\ result'.kind = "container"
               /\ result'.steps = obj.steps
               /\ \A j \in 1..k : result'.steps[j].scan = j - 1
               /\ DOMAIN result'.references = 0..(k - 1)
               /\ \A j \in 1..k :
                      result'.references[j - 1] = obj.steps[j].layerUuid
               /\ result'.result.lower = FitEntry(LowerPoints(obj.steps))
               /\ result'.result.upper = FitEntry(UpperPoints(obj.steps))
               /\ Len(result'.result.lower.points) = k
               /\ obj'.steps = << >>
               /\ obj' = [obj EXCEPT !.steps = << >>]
    /\ C22_RunCall =>
           /\ Len(obj'.steps) = Len(obj.steps) + 1
           /\ \A j \in 1..Len(obj.steps) : obj'.steps[j] = obj.steps[j]
           /\ obj'.steps[Len(obj'.steps)].scan = Len(obj.steps)
           /\ (result.kind \in {"container", "Raised"} /\ obj.steps = << >>)
                  => obj'.steps[1].scan = 0
    /\ C22_Numbered'

C22_Lifecycle == [][C22_Step]_vars

\* container() has just reported two steps taken at different positions:
\* the list is empty again and the estimates are those of the last scan
C22_Witness ==
    /\ C22_IsPlane
    /\ result.kind = "container"
    /\ Len(result.steps) = 2
    /\ result.steps[1].scan = 0
    /\ result.steps[2].scan = 1
    /\ result.steps[1].x # result.steps[2].x
    /\ result.steps[1].zLower # result.steps[2].zLower
    /\ result.references[0] # result.references[1]
    /\ obj.steps = << >>
    /\ obj.zlo = result.steps[2].zLower

=============================================================================
